---------------------------- MODULE Spec2Model ----------------------------
(***************************************************************************)
(* EnergyMarketTools: the distributed-generation valuation engine           *)
(* (DGValueProp.py: DGIn, DGOut, DGValProp.out, SensitivityStudy) and the   *)
(* multi-region aggregation (DGMarketStudy.py: MarketStudy.__init__).       *)
(*                                                                         *)
(* Numbers.  A float is modelled exactly: a rational n/d in lowest terms,  *)
(* or one of the IEEE specials nan, +inf, -inf (signed zeros and rounding  *)
(* are not modelled); what depends on the rounding is computed a second    *)
(* time in binary64, by the Float operators.  Every number also records    *)
(* whether it is a plain Python number (np = FALSE) or a numpy scalar /    *)
(* array element (np = TRUE): Python's "/" raises ZeroDivisionError on a   *)
(* zero divisor, numpy's returns inf or nan.  A raised exception is the    *)
(* value Raise, which every operation propagates.                          *)
(***************************************************************************)
EXTENDS Integers, Sequences, FiniteSets, TLC

\* ------------------------------------------------------------------------
\* Exact rational arithmetic with IEEE specials
\* ------------------------------------------------------------------------

Abs(x) == IF x < 0 THEN -x ELSE x

RECURSIVE GCD(_, _)
GCD(a, b) == IF b = 0 THEN a ELSE GCD(b, a % b)

\* The finite number n/d (d # 0), in lowest terms with a positive denominator.
Fin(n, d, np) ==
    LET g == GCD(Abs(n), Abs(d))
        s == IF d < 0 THEN -1 ELSE 1
    IN  [k |-> "fin", n |-> s * (n \div g), d |-> s * (d \div g), np |-> np]

Special(kind, np) == [k |-> kind, n |-> 0, d |-> 1, np |-> np]

\* float("NaN"): a plain Python float
PyNaN == Special("nan", FALSE)
NpNaN == Special("nan", TRUE)
Raise == Special("raise", FALSE)

Py(n, d) == Fin(n, d, FALSE)
Np(n, d) == Fin(n, d, TRUE)

IsRaise(a) == a.k = "raise"
IsNaN(a) == a.k = "nan"
IsFin(a) == a.k = "fin"
IsZero(a) == a.k = "fin" /\ a.n = 0

\* -1, 0, 1 for a finite or infinite number
Sign(a) ==
    CASE a.k = "pinf" -> 1
      [] a.k = "ninf" -> -1
      [] a.k = "fin" /\ a.n > 0 -> 1
      [] a.k = "fin" /\ a.n < 0 -> -1
      [] OTHER -> 0

\* The same number, whatever holds it (Python float or numpy scalar)
SameNum(a, b) == a.k = b.k /\ a.n = b.n /\ a.d = b.d

\* A value stored into (or read from) a numpy array is a numpy scalar
ToArray(a) == IF IsRaise(a) THEN Raise ELSE [a EXCEPT !.np = TRUE]

Neg(a) ==
    CASE a.k = "fin" -> [a EXCEPT !.n = -a.n]
      [] a.k = "pinf" -> [a EXCEPT !.k = "ninf"]
      [] a.k = "ninf" -> [a EXCEPT !.k = "pinf"]
      [] OTHER -> a

Add(a, b) ==
    IF IsRaise(a) \/ IsRaise(b) THEN Raise
    ELSE LET np == a.np \/ b.np IN
         CASE IsNaN(a) \/ IsNaN(b) -> Special("nan", np)
           [] IsFin(a) /\ IsFin(b) ->
                LET g == GCD(a.d, b.d)
                IN  Fin(a.n * (b.d \div g) + b.n * (a.d \div g), (a.d \div g) * b.d, np)
           [] IsFin(a) -> Special(b.k, np)
           [] IsFin(b) -> Special(a.k, np)
           [] a.k = b.k -> Special(a.k, np)
           [] OTHER -> Special("nan", np)

Sub(a, b) == Add(a, Neg(b))

Mul(a, b) ==
    IF IsRaise(a) \/ IsRaise(b) THEN Raise
    ELSE LET np == a.np \/ b.np IN
         CASE IsNaN(a) \/ IsNaN(b) -> Special("nan", np)
           [] IsFin(a) /\ IsFin(b) ->
                LET g1 == GCD(Abs(a.n), b.d)
                    g2 == GCD(Abs(b.n), a.d)
                IN  Fin((a.n \div g1) * (b.n \div g2), (a.d \div g2) * (b.d \div g1), np)
           [] Sign(a) * Sign(b) > 0 -> Special("pinf", np)
           [] Sign(a) * Sign(b) < 0 -> Special("ninf", np)
           [] OTHER -> Special("nan", np)

\* a / b.  Two plain Python numbers: a zero divisor raises ZeroDivisionError
\* (also for a = nan).  With a numpy operand: IEEE, x/0 = +-inf, 0/0 = nan.
Div(a, b) ==
    IF IsRaise(a) \/ IsRaise(b) THEN Raise
    ELSE LET np == a.np \/ b.np IN
         CASE IsZero(b) /\ ~np -> Raise
           [] IsNaN(a) \/ IsNaN(b) -> Special("nan", np)
           [] IsZero(b) ->
                (CASE Sign(a) > 0 -> Special("pinf", np)
                   [] Sign(a) < 0 -> Special("ninf", np)
                   [] OTHER -> Special("nan", np))
           [] IsFin(a) /\ IsFin(b) ->
                Mul(a, Fin(b.d, b.n, b.np))
           [] IsFin(a) -> Fin(0, 1, np)
           [] IsFin(b) ->
                (IF Sign(a) * Sign(b) > 0 THEN Special("pinf", np)
                 ELSE Special("ninf", np))
           [] OTHER -> Special("nan", np)

\* a ** e for a natural number e, by repeated multiplication (x ** 0 = 1,
\* also for x = nan)
RECURSIVE Pow(_, _)
Pow(a, e) ==
    IF IsRaise(a) THEN Raise
    ELSE IF e = 0 THEN Fin(1, 1, a.np)
    ELSE Mul(a, Pow(a, e - 1))

\* a >= 0 and a < 0 as Python and numpy compare: FALSE for nan
Ge0(a) == a.k = "pinf" \/ (a.k = "fin" /\ a.n >= 0)
Lt0(a) == a.k = "ninf" \/ (a.k = "fin" /\ a.n < 0)

\* a < b, for finite numbers
NumLt(a, b) == IsFin(a) /\ IsFin(b) /\ Sign(Sub(ToArray(a), ToArray(b))) < 0


\* ------------------------------------------------------------------------
\* Market values: exact linear combinations of penetration-curve values
\* ------------------------------------------------------------------------
(***************************************************************************)
(* The penetration curve G(z) = A/sqrt(2 pi)/sigma * exp(-(z/sigma)^2/2),  *)
(* A = 0.3193, sigma = 0.1274, is irrational at every rational z, so a     *)
(* maximum market penetration and everything the aggregation computes      *)
(* from it (products with and quotients by plain numbers, sums) is kept as *)
(* an exact linear combination  sum_z c_z * G(z)  with rational            *)
(* coefficients: t is the set of its terms [zn/zd, cn/cd], one per z, no   *)
(* zero coefficient.  k is "fin", or an IEEE special with t = {}.          *)
(***************************************************************************)
MVSpecial(kind) == [k |-> kind, t |-> {}]
MVZero == [k |-> "fin", t |-> {}]
MVGauss(z) == [k |-> "fin", t |-> {[zn |-> z.n, zd |-> z.d, cn |-> 1, cd |-> 1]}]

MVKeys(m) == {[zn |-> x.zn, zd |-> x.zd] : x \in m.t}
MVCoef(m, key) ==
    IF \E x \in m.t : x.zn = key.zn /\ x.zd = key.zd
    THEN LET x == CHOOSE x \in m.t : x.zn = key.zn /\ x.zd = key.zd
         IN  Np(x.cn, x.cd)
    ELSE Np(0, 1)
\* coef: a function from keys to numbers
MVTerms(coef) ==
    {[zn |-> key.zn, zd |-> key.zd, cn |-> coef[key].n, cd |-> coef[key].d] :
        key \in {q \in DOMAIN coef : coef[q].n # 0}}

\* -1, 0, 1: the terms of a combination built from non-negative generation
\* all have the same sign (MVUniform), and G > 0
MVSign(m) ==
    CASE m.k = "pinf" -> 1
      [] m.k = "ninf" -> -1
      [] m.k = "fin" /\ \E x \in m.t : x.cn > 0 -> 1
      [] m.k = "fin" /\ \E x \in m.t : x.cn < 0 -> -1
      [] OTHER -> 0
MVUniform(m) == ~(\E x \in m.t : x.cn > 0) \/ ~(\E x \in m.t : x.cn < 0)

MVAdd(a, b) ==
    CASE a.k = "nan" \/ b.k = "nan" -> MVSpecial("nan")
      [] a.k = "fin" /\ b.k = "fin" ->
           [k |-> "fin",
            t |-> MVTerms([key \in MVKeys(a) \cup MVKeys(b) |->
                              Add(MVCoef(a, key), MVCoef(b, key))])]
      [] a.k = "fin" -> b
      [] b.k = "fin" -> a
      [] a.k = b.k -> a
      [] OTHER -> MVSpecial("nan")

\* array * number and number * array (numpy: never raises)
MVMul(m, v) ==
    CASE m.k = "nan" \/ IsNaN(v) -> MVSpecial("nan")
      [] m.k = "fin" /\ IsFin(v) ->
           [k |-> "fin", t |-> MVTerms([key \in MVKeys(m) |-> Mul(MVCoef(m, key), v)])]
      [] MVSign(m) * Sign(v) > 0 -> MVSpecial("pinf")
      [] MVSign(m) * Sign(v) < 0 -> MVSpecial("ninf")
      [] OTHER -> MVSpecial("nan")

\* array / number (numpy: x/0 = +-inf, 0/0 = nan, never raises)
MVDiv(m, v) ==
    CASE m.k = "nan" \/ IsNaN(v) -> MVSpecial("nan")
      [] IsZero(v) ->
           (CASE MVSign(m) > 0 -> MVSpecial("pinf")
              [] MVSign(m) < 0 -> MVSpecial("ninf")
              [] OTHER -> MVSpecial("nan"))
      [] m.k = "fin" /\ IsFin(v) -> MVMul(m, Fin(v.d, v.n, TRUE))
      [] m.k = "fin" -> MVZero
      [] IsFin(v) ->
           (IF MVSign(m) * Sign(v) > 0 THEN MVSpecial("pinf") ELSE MVSpecial("ninf"))
      [] OTHER -> MVSpecial("nan")


\* ------------------------------------------------------------------------
\* IEEE 754 binary64: the arithmetic of Python's float and numpy's float64,
\* round to nearest, ties to even.  A number is sign x m x 2^e with m a
\* natural number of 53 bits kept as a list of limbs, least significant
\* first.  Exponent overflow, subnormal numbers and the sign of zero are not
\* modelled: the quantities of the engine are far from both ends of the range.
\* ------------------------------------------------------------------------
LimbBits == 15
LimbBase == 32768
MantissaBits == 53

\* The element of a set of one element: {e : v \in {x}} computes x once
Only(S) == CHOOSE r \in S : TRUE

\* 2^k, for k < 31
RECURSIVE Pow2(_)
Pow2(k) == IF k = 0 THEN 1 ELSE 2 * Pow2(k - 1)

\* The limbs of a small natural number
RECURSIVE NatOf(_)
NatOf(x) == IF x = 0 THEN <<>> ELSE <<x % LimbBase>> \o NatOf(x \div LimbBase)

Limb(a, i) == IF i <= Len(a) THEN a[i] ELSE 0

\* Without leading zero limbs
RECURSIVE NatNorm(_)
NatNorm(a) ==
    IF a = <<>> \/ a[Len(a)] # 0 THEN a ELSE NatNorm(SubSeq(a, 1, Len(a) - 1))

\* -1, 0 or 1 as a < b, a = b or a > b; i is the limb compared, from the top
RECURSIVE NatCmpAt(_, _, _)
NatCmpAt(a, b, i) ==
    IF i = 0 THEN 0
    ELSE IF a[i] < b[i] THEN -1
    ELSE IF a[i] > b[i] THEN 1
    ELSE NatCmpAt(a, b, i - 1)
NatCmp(a, b) ==
    IF Len(a) < Len(b) THEN -1
    ELSE IF Len(a) > Len(b) THEN 1
    ELSE NatCmpAt(a, b, Len(a))

RECURSIVE NatAddAt(_, _, _, _)
NatAddAt(a, b, i, carry) ==
    IF i > Len(a) /\ i > Len(b)
    THEN NatOf(carry)
    ELSE <<(Limb(a, i) + Limb(b, i) + carry) % LimbBase>>
         \o NatAddAt(a, b, i + 1, (Limb(a, i) + Limb(b, i) + carry) \div LimbBase)
NatAdd(a, b) == NatAddAt(a, b, 1, 0)

\* a - b, for a >= b
RECURSIVE NatSubAt(_, _, _, _)
NatSubAt(a, b, i, borrow) ==
    IF i > Len(a) THEN <<>>
    ELSE <<(a[i] - Limb(b, i) - borrow) % LimbBase>>
         \o NatSubAt(a, b, i + 1, IF a[i] - Limb(b, i) - borrow < 0 THEN 1 ELSE 0)
NatSub(a, b) == Only({NatNorm(d) : d \in {NatSubAt(a, b, 1, 0)}})

\* a x k, for a limb k
RECURSIVE NatMulLimbAt(_, _, _, _)
NatMulLimbAt(a, k, i, carry) ==
    IF i > Len(a) THEN NatOf(carry)
    ELSE <<(a[i] * k + carry) % LimbBase>>
         \o NatMulLimbAt(a, k, i + 1, (a[i] * k + carry) \div LimbBase)
NatMulLimb(a, k) == IF k = 0 THEN <<>> ELSE NatMulLimbAt(a, k, 1, 0)

\* q zero limbs below a
RECURSIVE NatShlLimbs(_, _)
NatShlLimbs(a, q) ==
    IF a = <<>> \/ q = 0 THEN a ELSE <<0>> \o NatShlLimbs(a, q - 1)

RECURSIVE NatMulAt(_, _, _)
NatMulAt(a, b, i) ==
    IF i > Len(b) THEN <<>>
    ELSE Only({NatAdd(NatShlLimbs(p, i - 1), r) :
               p \in {NatMulLimb(a, b[i])}, r \in {NatMulAt(a, b, i + 1)}})
NatMul(a, b) == NatMulAt(a, b, 1)

\* a x 2^k
NatShl(a, k) ==
    Only({NatShlLimbs(p, k \div LimbBits) : p \in {NatMulLimb(a, Pow2(k % LimbBits))}})

\* the quotient of a by the limb d > 0; i is the limb divided, from the top
RECURSIVE NatDivLimbAt(_, _, _, _)
NatDivLimbAt(a, d, i, rem) ==
    IF i = 0 THEN <<>>
    ELSE NatDivLimbAt(a, d, i - 1, (rem * LimbBase + a[i]) % d)
         \o <<(rem * LimbBase + a[i]) \div d>>

\* floor(a / 2^k)
NatShr(a, k) ==
    IF k \div LimbBits >= Len(a) THEN <<>>
    ELSE Only({NatNorm(q) :
               q \in {NatDivLimbAt(SubSeq(a, k \div LimbBits + 1, Len(a)),
                                   Pow2(k % LimbBits),
                                   Len(a) - k \div LimbBits, 0)}})

\* The number of bits of a limb and of a natural number
RECURSIVE LimbLen(_)
LimbLen(x) == IF x = 0 THEN 0 ELSE 1 + LimbLen(x \div 2)
NatLen(a) == IF a = <<>> THEN 0 ELSE LimbBits * (Len(a) - 1) + LimbLen(a[Len(a)])

\* bit i of a, the least significant one being bit 0
NatBit(a, i) == (Limb(a, i \div LimbBits + 1) \div Pow2(i % LimbBits)) % 2

\* Long division of a by b, limb by limb from the top limb of a, for b with
\* a top limb of at least LimbBase / 2: the digit estimated from the two top
\* limbs of the remainder is at most 2 too large
RECURSIVE NatDivDigit(_, _, _)
NatDivDigit(r, b, d) ==
    IF Only({NatCmp(p, r) : p \in {NatMulLimb(b, d)}}) > 0
    THEN NatDivDigit(r, b, d - 1)
    ELSE d
NatDivEstimate(r, b) ==
    IF (Limb(r, Len(b) + 1) * LimbBase + Limb(r, Len(b))) \div b[Len(b)] < LimbBase
    THEN (Limb(r, Len(b) + 1) * LimbBase + Limb(r, Len(b))) \div b[Len(b)]
    ELSE LimbBase - 1
RECURSIVE NatDivModAt(_, _, _, _, _)
NatDivStep(a, b, i, q, r, d) ==
    Only({NatDivModAt(a, b, i, <<d>> \o q, NatSub(r, p)) : p \in {NatMulLimb(b, d)}})
NatDivLimb(a, b, i, q, r) ==
    Only({NatDivStep(a, b, i, q, r, d) : d \in {NatDivDigit(r, b, NatDivEstimate(r, b))}})
NatDivModAt(a, b, i, q, r) ==
    IF i = 0 THEN [q |-> NatNorm(q), r |-> r]
    ELSE Only({NatDivLimb(a, b, i - 1, q, r2) : r2 \in {NatNorm(<<a[i]>> \o r)}})
NatDivMod(a, b) == NatDivModAt(a, b, Len(a), <<>>, <<>>)

\* A float: a finite number or nan
Float(s, m, e) == [k |-> "fin", s |-> s, m |-> m, e |-> e]
FloatNaN == [k |-> "nan", s |-> 0, m |-> <<>>, e |-> 0]
FloatZero == Float(0, <<>>, 0)
FloatIsZero(x) == x.k = "fin" /\ x.m = <<>>

\* q of 53 bits, or of 54 after a carry of the rounding
FloatOfRounded(s, q, e) ==
    IF NatLen(q) > MantissaBits THEN Float(s, NatShr(q, 1), e + 1) ELSE Float(s, q, e)

\* q rounded up or down: half is -1, 0 or 1 as the bits dropped are less
\* than, equal to or more than half a unit of q; ties go to the even q, and
\* up when bits that are not all 0 follow (sticky)
FloatRoundTo(s, q, half, e, sticky) ==
    IF half > 0 \/ (half = 0 /\ (sticky \/ q[1] % 2 = 1))
    THEN Only({FloatOfRounded(s, up, e) : up \in {NatAdd(q, <<1>>)}})
    ELSE Float(s, q, e)

\* -1, 0 or 1 as the drop lowest bits of n, q = floor(n / 2^drop), are less
\* than, equal to or more than half of 2^drop
FloatHalf(n, q, drop) ==
    Only({NatCmp(dropped, half) :
          dropped \in {Only({NatSub(n, lo) : lo \in {NatShl(q, drop)}})},
          half \in {NatShl(<<1>>, drop - 1)}})

\* n x 2^e rounded to 53 bits by dropping drop > 0 bits
FloatDrop(s, n, q, drop, e, sticky) ==
    Only({FloatRoundTo(s, q, half, e + drop, sticky) :
          half \in {FloatHalf(n, q, drop)}})

\* The float nearest to sign x n x 2^e, n of len bits
FloatRoundLen(s, n, len, e, sticky) ==
    IF len <= MantissaBits
    THEN Float(s, NatShl(n, MantissaBits - len), e - (MantissaBits - len))
    ELSE Only({FloatDrop(s, n, q, len - MantissaBits, e, sticky) :
               q \in {NatShr(n, len - MantissaBits)}})
FloatRound(s, n, e, sticky) ==
    IF n = <<>> THEN FloatZero
    ELSE Only({FloatRoundLen(s, n, len, e, sticky) : len \in {NatLen(n)}})

\* An integer as a float
FloatOfInt(x) ==
    Only({FloatRound(IF x < 0 THEN 1 ELSE 0, n, 0, FALSE) :
          n \in {NatOf(IF x < 0 THEN -x ELSE x)}})

FloatNeg(x) == IF x.k = "fin" THEN [x EXCEPT !.s = 1 - @] ELSE x

\* The sum of the magnitudes a x 2^e and b x 2^e taken with the signs sa, sb
FloatSum(sa, a, sb, b, e) ==
    IF sa = sb
    THEN Only({FloatRound(sa, n, e, FALSE) : n \in {NatAdd(a, b)}})
    ELSE IF NatCmp(a, b) >= 0
    THEN Only({FloatRound(sa, n, e, FALSE) : n \in {NatSub(a, b)}})
    ELSE Only({FloatRound(sb, n, e, FALSE) : n \in {NatSub(b, a)}})

\* The difference of exponents beyond which the smaller term of a sum only
\* decides the direction of the rounding
FarApart == 60

\* x + y of two finite non-zero floats, x.e >= y.e
FloatAddOrdered(x, y) ==
    IF x.e - y.e > FarApart
    THEN Only({FloatSum(x.s, a, y.s, <<1>>, x.e - 3) : a \in {NatShl(x.m, 3)}})
    ELSE Only({FloatSum(x.s, a, y.s, y.m, y.e) : a \in {NatShl(x.m, x.e - y.e)}})

FloatAddValues(x, y) ==
    IF x.k # "fin" \/ y.k # "fin" THEN FloatNaN
    ELSE IF FloatIsZero(x) THEN y
    ELSE IF FloatIsZero(y) THEN x
    ELSE IF x.e >= y.e THEN FloatAddOrdered(x, y)
    ELSE FloatAddOrdered(y, x)

\* x + y
FloatAdd(x, y) == Only({FloatAddValues(u, v) : u \in {x}, v \in {y}})

\* x - y
FloatSub(x, y) == Only({FloatAddValues(u, FloatNeg(v)) : u \in {x}, v \in {y}})

FloatMulValues(x, y) ==
    IF x.k # "fin" \/ y.k # "fin" THEN FloatNaN
    ELSE Only({FloatRound((x.s + y.s) % 2, p, x.e + y.e, FALSE) :
               p \in {NatMul(x.m, y.m)}})

\* x * y
FloatMul(x, y) == Only({FloatMulValues(u, v) : u \in {x}, v \in {y}})

\* the quotient of a = x.m x 2^56 by b = y.m, rounded; both are taken 2^7
\* times, which makes the top limb of b large
FloatOfQuotient(s, a, b, e) ==
    Only({FloatRound(s, qr.q, e, qr.r # <<>>) : qr \in {NatDivMod(a, b)}})

\* a division by zero is not a finite number
FloatDivValues(x, y) ==
    IF x.k # "fin" \/ y.k # "fin" \/ FloatIsZero(y) THEN FloatNaN
    ELSE IF FloatIsZero(x) THEN FloatZero
    ELSE Only({FloatOfQuotient((x.s + y.s) % 2, a, b, x.e - y.e - 56) :
               a \in {NatShl(x.m, 63)}, b \in {NatShl(y.m, 7)}})

\* x / y
FloatDiv(x, y) == Only({FloatDivValues(u, v) : u \in {x}, v \in {y}})

\* x ** i of the C library for an integer i >= 0: the float nearest to the
\* power
RECURSIVE NatPow(_, _)
NatPow(a, i) ==
    IF i = 0 THEN <<1>> ELSE Only({NatMul(a, p) : p \in {NatPow(a, i - 1)}})
FloatPowValue(x, i) ==
    IF x.k # "fin" THEN FloatNaN
    ELSE IF i = 0 THEN FloatOfInt(1)
    ELSE Only({FloatRound(IF i % 2 = 1 THEN x.s ELSE 0, p, x.e * i, FALSE) :
               p \in {NatPow(x.m, i)}})
FloatPow(x, i) == Only({FloatPowValue(u, i) : u \in {x}})

\* The float of a number of the model: a decimal literal or a value of the
\* data, read as the float nearest to it
FloatOf(x) ==
    IF ~IsFin(x) THEN FloatNaN ELSE FloatDiv(FloatOfInt(x.n), FloatOfInt(x.d))

\* ------------------------------------------------------------------------
\* State
\* ------------------------------------------------------------------------
VARIABLES
    np_irr_raises,  \* this numpy build: np.irr's LinAlgError on non-finite
                    \* cash flows is no ValueError and escapes "except ValueError"
    \* a DGValProp object and the last value read from its "out" property
    vp_inp, vp_out,
    \* SensitivityStudy.__init__ and get_val_metric
    ss_args, ss_pc, ss_i, ss_j, ss_study, ss_metric,
    \* MarketStudy.__init__
    ms_args, ms_pc, ms_si, ms_yi, ms_ri, ms_region,
    studyPortfolio, TotalMarket_TWh, AddressedMarket_TWh, TotalMarketPen,
    PrimaryEnergySavings_TWh, PrimaryEnergySavings_Quads,
    arrays,         \* the numpy arrays the MarketStudy's dictionaries refer to
    \* DGValProp objects and the DGIn objects their "inp" attributes refer to
    dgin_objects,   \* the DGIn objects, by identity
    props,          \* the DGValProp objects: the identity of self.inp
    versions,       \* history: the number of changes made to each DGIn object
    reads,          \* history: the last reads of each DGValProp's "out"
    last_op         \* history: the DGValProp the last change was made through

libVars == <<np_irr_raises>>
vpVars == <<vp_inp, vp_out>>
ssVars == <<ss_args, ss_pc, ss_i, ss_j, ss_study, ss_metric>>
msVars == <<ms_args, ms_pc, ms_si, ms_yi, ms_ri, ms_region,
            studyPortfolio, TotalMarket_TWh, AddressedMarket_TWh, TotalMarketPen,
            PrimaryEnergySavings_TWh, PrimaryEnergySavings_Quads, arrays>>
prVars == <<dgin_objects, props, versions, reads, last_op>>
vars == <<libVars, vpVars, ssVars, msVars, prVars>>

\* ------------------------------------------------------------------------
\* DGIn: the input parameters (DGValueProp.py)
\* ------------------------------------------------------------------------

\* The constructor's keyword parameters, in order
DGInParams ==
    {"electric_efficiency", "thermal_efficiency", "installed_price_dol_W",
     "maint_cost_dol_kWh", "life_yrs", "elec_capacity_utilization",
     "therm_capacity_utilization", "baseline_thermal_efficiency",
     "inflation_rate", "discount_rate"}
RateFields == {"elec_rate_dol_kWh", "ng_rate_dol_kWh"}
\* The attributes DGIn.__init__ sets
DGInFields == DGInParams \cup RateFields

\* thermal_efficiency given as the string '(1-electric_efficiency)/2'
Formula == Special("formula", FALSE)

\* DGIn.__init__: a new object, its attributes by name.  A string
\* thermal_efficiency is evaluated here, once, with the constructor's
\* electric_efficiency argument; the rates default to float("NaN").
DGIn(kw) ==
    [electric_efficiency |-> kw.electric_efficiency,
     thermal_efficiency |->
        IF kw.thermal_efficiency = Formula
        THEN Div(Sub(Py(1, 1), kw.electric_efficiency), Py(2, 1))
        ELSE kw.thermal_efficiency,
     installed_price_dol_W |-> kw.installed_price_dol_W,
     maint_cost_dol_kWh |-> kw.maint_cost_dol_kWh,
     life_yrs |-> kw.life_yrs,
     elec_capacity_utilization |-> kw.elec_capacity_utilization,
     therm_capacity_utilization |-> kw.therm_capacity_utilization,
     baseline_thermal_efficiency |-> kw.baseline_thermal_efficiency,
     inflation_rate |-> kw.inflation_rate,
     discount_rate |-> kw.discount_rate,
     elec_rate_dol_kWh |-> PyNaN,
     ng_rate_dol_kWh |-> PyNaN]

\* DGIn.set_spread: the rates of an EIAStateDataSet
set_spread(inp, StateDataSet) ==
    [inp EXCEPT !["elec_rate_dol_kWh"] = StateDataSet.elec_rate_dol_kWh,
                !["ng_rate_dol_kWh"] = StateDataSet.ng_rate_dol_kWh]

\* (mutant of setattr) the formula of thermal_efficiency is evaluated again
\* when electric_efficiency is set
setattr_reevaluating(inp, name, value) ==
    IF name = "electric_efficiency"
    THEN [inp EXCEPT !["electric_efficiency"] = value,
                     !["thermal_efficiency"] = Div(Sub(Py(1, 1), value), Py(2, 1))]
    ELSE IF name \in DOMAIN inp
    THEN [inp EXCEPT ![name] = value]
    ELSE inp @@ (name :> value)

\* setattr(inp, name, value) on a plain object: an attribute of that name is
\* set, or created when the object has none
setattr(inp, name, value) ==
    IF name \in DOMAIN inp
    THEN [inp EXCEPT ![name] = value]
    ELSE inp @@ (name :> value)

\* ------------------------------------------------------------------------
\* DGValProp.out: the valuation engine (DGValueProp.py)
\* ------------------------------------------------------------------------

\* DGOut: the metrics, and exc = "none"; when evaluating "out" raised, exc
\* names the exception and there are no metrics (the fields hold DGOut's
\* defaults)
DGOut(NPV, IRR, PB, LCOEv, MMP, EEE) ==
    [exc |-> "none", NPV_dol_kWh |-> NPV, IRR |-> IRR, PB_yrs |-> PB,
     LCOE_dol_kWh |-> LCOEv, MaxMarketPen |-> MMP,
     Effective_Electric_Efficiency |-> EEE]
Raised(exc) ==
    [exc |-> exc, NPV_dol_kWh |-> PyNaN, IRR |-> PyNaN, PB_yrs |-> PyNaN,
     LCOE_dol_kWh |-> PyNaN, MaxMarketPen |-> MVSpecial("nan"),
     Effective_Electric_Efficiency |-> PyNaN]

\* sum of f[lo..hi], left to right, as numpy sums an array
RECURSIVE SumArray(_, _, _)
SumArray(f, lo, hi) ==
    IF hi < lo THEN Np(0, 1)
    ELSE IF hi = lo THEN ToArray(f[lo])
    ELSE Add(SumArray(f, lo, hi - 1), f[hi])

\* (mutant of A) a larger scale of the penetration curve
A_Larger == Py(8, 25)

\* A, sigma = 0.3193, 0.1274: the scale and the width of the penetration curve
A == Py(3193, 10000)
sigma == Py(1274, 10000)

\* (A/sigma)**2/2: the square of the curve's peak A/np.sqrt(2*np.pi)/sigma,
\* times pi
PeakSquaredTimesPi == Div(Mul(Div(A, sigma), Div(A, sigma)), Py(2, 1))

\* (mutant of Maximum_Market_Penetration) the curve without the np.where guard
MMP_NoGuard(PB_yrs, life_yrs) ==
    IF IsFin(PB_yrs) THEN MVGauss(Div(PB_yrs, life_yrs)) ELSE MVZero

\* Maximum_Market_Penetration(PB_yrs): np.where(PB_yrs >= 0, G(PB_yrs/life_yrs), 0).
\* nan >= 0 is False; exp(-inf) = 0.
Maximum_Market_Penetration(PB_yrs, life_yrs) ==
    IF Ge0(PB_yrs)
    THEN IF IsFin(PB_yrs) THEN MVGauss(Div(PB_yrs, life_yrs)) ELSE MVZero
    ELSE MVZero

\* First-year operating margin before inflation: electricity rate - gas
\* rate/electric efficiency - maintenance cost + thermal credit
OperatingMargin(inp) ==
    Add(Sub(Sub(inp["elec_rate_dol_kWh"],
                Div(inp["ng_rate_dol_kWh"], inp["electric_efficiency"])),
            inp["maint_cost_dol_kWh"]),
        Mul(Div(Div(Mul(inp["ng_rate_dol_kWh"], inp["thermal_efficiency"]),
                    inp["electric_efficiency"]),
                inp["baseline_thermal_efficiency"]),
            inp["therm_capacity_utilization"]))

\* The annual cash flows in $/kWh, a numpy array of life_yrs + 1 entries
CashFlows_dol_kWh(inp) ==
    (0 :> ToArray(Div(Div(Mul(Neg(inp["installed_price_dol_W"]), Py(1000, 1)),
                          Py(8760, 1)),
                      inp["elec_capacity_utilization"])))
    @@ [i \in 1..inp["life_yrs"].n |->
           ToArray(Mul(OperatingMargin(inp),
                       Pow(Add(Py(1, 1), inp["inflation_rate"]), i)))]

\* (1 + rate) ** np.array([..., i, ...]): an array element
Compound(rate, i) == ToArray(Pow(Add(Py(1, 1), rate), i))

\* (mutant of DF) a discount factor of payments made at the start of the year
DF_due(inp) ==
    SumArray([i \in 1..inp["life_yrs"].n |->
                 Div(Py(1, 1), Compound(inp["discount_rate"], i - 1))],
             1, inp["life_yrs"].n)

\* DF(): np.sum(1/(1+discount_rate)**np.array(range(1, life_yrs+1)))
DF(inp) ==
    SumArray([i \in 1..inp["life_yrs"].n |->
                 Div(Py(1, 1), Compound(inp["discount_rate"], i))],
             1, inp["life_yrs"].n)

\* LCOE(): the levelized cost of electricity in $/kWh
LCOE(inp) ==
    Sub(Add(Add(Div(Div(Div(Mul(inp["installed_price_dol_W"], Py(1000, 1)),
                            Py(8760, 1)),
                        inp["elec_capacity_utilization"]),
                    DF(inp)),
                Div(inp["ng_rate_dol_kWh"], inp["electric_efficiency"])),
            inp["maint_cost_dol_kWh"]),
        Mul(Div(Div(Mul(inp["ng_rate_dol_kWh"], inp["thermal_efficiency"]),
                    inp["electric_efficiency"]),
                inp["baseline_thermal_efficiency"]),
            inp["therm_capacity_utilization"]))

\* Effective_Electric_Efficiency()
Effective_Electric_Efficiency(inp) ==
    Div(inp["electric_efficiency"],
        Sub(Py(1, 1),
            Div(Mul(Div(inp["thermal_efficiency"], inp["baseline_thermal_efficiency"]),
                    inp["therm_capacity_utilization"]),
                inp["elec_capacity_utilization"])))

\* (mutant of npv) the present value of the operating cash flows alone
npv_operating(rate, values, n) ==
    SumArray([i \in 1..n |-> Div(values[i], Compound(rate, i))], 1, n)

\* np.npv(rate, values): (values / (1+rate)**np.arange(0, len(values))).sum()
npv(rate, values, n) ==
    SumArray([i \in 0..n |-> Div(values[i], Compound(rate, i))], 0, n)

(***************************************************************************)
(* np.irr(values): the roots x of sum values[i] x^i (np.roots, by the      *)
(* eigenvalues of the companion matrix of the coefficients between the     *)
(* first and the last non-zero one), the real positive ones give the rates  *)
(* 1/x - 1, the one closest to 0 is returned, nan when there is none.      *)
(* The value of a root is not modelled: "root" is a defined float.  The    *)
(* cash flows are c0, m g, m g^2, ... with g = 1 + inflation_rate >= 0, so *)
(* a real positive root exists exactly when c0 and m have opposite signs.  *)
(* With a nan or inf among two or more coefficients np.linalg.eigvals      *)
(* raises LinAlgError: "linalg".                                           *)
(***************************************************************************)
irr(values, n) ==
    LET nz == {i \in 0..n : ~IsZero(values[i])} IN
    IF Cardinality(nz) < 2 THEN NpNaN
    ELSE IF \E i \in nz : ~IsFin(values[i]) THEN Special("linalg", TRUE)
    ELSE IF 0 \in nz /\ Sign(values[0]) * Sign(values[1]) < 0
         THEN Special("root", TRUE)
    ELSE NpNaN

\* (mutant of SimplePayback) the magnitude of the payback
SimplePaybackMagnitude(CF) ==
    IF Lt0(Div(Neg(CF[0]), CF[1])) THEN Neg(Div(Neg(CF[0]), CF[1]))
    ELSE Div(Neg(CF[0]), CF[1])

\* (mutant of SimplePayback) a payback clamped to 0 when negative
SimplePaybackClamped(CF) ==
    IF Lt0(Div(Neg(CF[0]), CF[1])) THEN Np(0, 1) ELSE Div(Neg(CF[0]), CF[1])

\* Simple payback period: -CashFlows_dol_kWh[0] / CashFlows_dol_kWh[1], a
\* division of two array elements
SimplePayback(CF) == Div(Neg(CF[0]), CF[1])

\* The "out" property: computed from the inputs at every read
out(inp) ==
    LET n == inp["life_yrs"].n
        CF == CashFlows_dol_kWh(inp)
        irr0 == irr(CF, n)
        PB_yrs == SimplePayback(CF)
        lcoe == LCOE(inp)
        eee == Effective_Electric_Efficiency(inp)
    IN  IF \E i \in 0..n : IsRaise(CF[i]) THEN Raised("ZeroDivisionError")
        ELSE IF irr0.k = "linalg" /\ np_irr_raises THEN Raised("LinAlgError")
        ELSE IF IsRaise(lcoe) \/ IsRaise(eee) THEN Raised("ZeroDivisionError")
        ELSE DGOut(npv(inp["discount_rate"], CF, n),
                   IF irr0.k = "linalg" THEN PyNaN ELSE irr0,
                   PB_yrs,
                   lcoe,
                   Maximum_Market_Penetration(PB_yrs, inp["life_yrs"]),
                   eee)

\* ------------------------------------------------------------------------
\* DGValProp.out in binary64: the cash flows, DF, LCOE and np.npv with every
\* operation rounded, in the order Python evaluates them
\* ------------------------------------------------------------------------

\* The attributes of a DGIn as floats; life_yrs stays an integer
FloatInputs(inp) ==
    [electric_efficiency |-> FloatOf(inp["electric_efficiency"]),
     thermal_efficiency |-> FloatOf(inp["thermal_efficiency"]),
     installed_price_dol_W |-> FloatOf(inp["installed_price_dol_W"]),
     maint_cost_dol_kWh |-> FloatOf(inp["maint_cost_dol_kWh"]),
     life_yrs |-> inp["life_yrs"].n,
     elec_capacity_utilization |-> FloatOf(inp["elec_capacity_utilization"]),
     therm_capacity_utilization |-> FloatOf(inp["therm_capacity_utilization"]),
     baseline_thermal_efficiency |-> FloatOf(inp["baseline_thermal_efficiency"]),
     inflation_rate |-> FloatOf(inp["inflation_rate"]),
     discount_rate |-> FloatOf(inp["discount_rate"]),
     elec_rate_dol_kWh |-> FloatOf(inp["elec_rate_dol_kWh"]),
     ng_rate_dol_kWh |-> FloatOf(inp["ng_rate_dol_kWh"])]

\* installed_price_dol_W*1000/8760/elec_capacity_utilization
FloatCapital(fi) ==
    FloatDiv(FloatDiv(FloatMul(fi.installed_price_dol_W, FloatOfInt(1000)),
                      FloatOfInt(8760)),
             fi.elec_capacity_utilization)

\* ng_rate_dol_kWh*thermal_efficiency/electric_efficiency
\*     /baseline_thermal_efficiency*therm_capacity_utilization
FloatThermalCredit(fi) ==
    FloatMul(FloatDiv(FloatDiv(FloatMul(fi.ng_rate_dol_kWh, fi.thermal_efficiency),
                               fi.electric_efficiency),
                      fi.baseline_thermal_efficiency),
             fi.therm_capacity_utilization)

FloatOperatingMargin(fi) ==
    FloatAdd(FloatSub(FloatSub(fi.elec_rate_dol_kWh,
                               FloatDiv(fi.ng_rate_dol_kWh, fi.electric_efficiency)),
                      fi.maint_cost_dol_kWh),
             FloatThermalCredit(fi))

\* (1 + rate) ** i
FloatCompound(rate, i) == FloatPow(FloatAdd(FloatOfInt(1), rate), i)

\* CashFlows_dol_kWh[i]
FloatCashFlow(fi, i) ==
    IF i = 0 THEN FloatNeg(FloatCapital(fi))
    ELSE FloatMul(FloatOperatingMargin(fi), FloatCompound(fi.inflation_rate, i))

\* DF(): the terms 1/(1+discount_rate)**i added from i = 1 on
RECURSIVE FloatDFTo(_, _)
FloatDFTo(fi, n) ==
    IF n = 0 THEN FloatZero
    ELSE FloatAdd(FloatDFTo(fi, n - 1),
                  FloatDiv(FloatOfInt(1), FloatCompound(fi.discount_rate, n)))
FloatDF(fi) == FloatDFTo(fi, fi.life_yrs)

\* LCOE()
FloatLCOE(fi) ==
    FloatSub(FloatAdd(FloatAdd(FloatDiv(FloatCapital(fi), FloatDF(fi)),
                               FloatDiv(fi.ng_rate_dol_kWh, fi.electric_efficiency)),
                      fi.maint_cost_dol_kWh),
             FloatThermalCredit(fi))

\* np.npv(discount_rate, CashFlows_dol_kWh): the terms added from i = 0 on
RECURSIVE FloatNPVTo(_, _)
FloatNPVTo(fi, n) ==
    IF n < 0 THEN FloatZero
    ELSE FloatAdd(FloatNPVTo(fi, n - 1),
                  FloatDiv(FloatCashFlow(fi, n), FloatCompound(fi.discount_rate, n)))
FloatNPV(fi) == FloatNPVTo(fi, fi.life_yrs)

\* The float inputs with the electricity rate set to their LCOE
FloatAtBreakEven(fi) ==
    Only({[fi EXCEPT !.elec_rate_dol_kWh = lcoe] : lcoe \in {FloatLCOE(fi)}})

\* The NPV in binary64 of the inputs with the electricity rate set to their
\* LCOE in binary64
FloatBreakEvenNPV(inp) ==
    Only({FloatNPV(b) : b \in {Only({FloatAtBreakEven(fi) : fi \in {FloatInputs(inp)}})}})

\* ------------------------------------------------------------------------
\* Inputs
\* ------------------------------------------------------------------------
MaxLife == 2

\* The values of each constructor parameter: nominal ones, the degenerate
\* ones (0, -1), and zeros that are numpy scalars (an element of a numpy
\* sweep array)
ParamValues(f) ==
    CASE f = "electric_efficiency" -> {Py(0, 1), Np(0, 1), Py(1, 2)}
      [] f = "thermal_efficiency" -> {Py(0, 1), Formula}
      [] f = "installed_price_dol_W" -> {Py(0, 1), Py(219, 100), Py(219, 50)}
      [] f = "maint_cost_dol_kWh" -> {Py(1, 50)}
      [] f = "life_yrs" -> {Py(n, 1) : n \in 1..MaxLife}
      [] f = "elec_capacity_utilization" -> {Py(0, 1), Np(0, 1), Py(1, 2)}
      [] f = "therm_capacity_utilization" -> {Py(1, 4)}
      [] f = "baseline_thermal_efficiency" -> {Py(0, 1), Py(1, 1)}
      [] f = "inflation_rate" -> {Py(0, 1), Py(1, 10)}
      [] f = "discount_rate" -> {Py(-1, 1), Py(0, 1), Py(1, 4)}

\* The keyword arguments of a DGIn(...) call
Kws ==
    [electric_efficiency : ParamValues("electric_efficiency"),
     thermal_efficiency : ParamValues("thermal_efficiency"),
     installed_price_dol_W : ParamValues("installed_price_dol_W"),
     maint_cost_dol_kWh : ParamValues("maint_cost_dol_kWh"),
     life_yrs : ParamValues("life_yrs"),
     elec_capacity_utilization : ParamValues("elec_capacity_utilization"),
     therm_capacity_utilization : ParamValues("therm_capacity_utilization"),
     baseline_thermal_efficiency : ParamValues("baseline_thermal_efficiency"),
     inflation_rate : ParamValues("inflation_rate"),
     discount_rate : ParamValues("discount_rate")]

\* EIAStateDataSet: the rates and the net generation of a (region, sector,
\* year); each is a float and float("NaN") when the series has no such year
EIAStateDataSet(elec_rate, ng_rate, net_generation) ==
    [elec_rate_dol_kWh |-> elec_rate, ng_rate_dol_kWh |-> ng_rate,
     net_generation_kWh |-> net_generation]

ElecRates == {PyNaN, Np(0, 1), Np(1, 10), Np(1, 5)}
NGRates == {PyNaN, Py(1, 25), Np(1, 25)}

\* ------------------------------------------------------------------------
\* A DGValProp object: construction, set_spread, one read of "out"
\* ------------------------------------------------------------------------
Unread == [read |-> FALSE, val |-> Raised("unread")]

vp_Idle == vp_inp = <<>> /\ vp_out = Unread

\* DGValProp(DGIn(...))
vp_Init ==
    /\ \E kw \in Kws : vp_inp = DGIn(kw)
    /\ vp_out = Unread

\* inp.set_spread(StateDataSet)
vp_set_spread ==
    /\ ~vp_out.read
    /\ \E e \in ElecRates, g \in NGRates :
          vp_inp' = set_spread(vp_inp, EIAStateDataSet(e, g, PyNaN))
    /\ UNCHANGED vp_out

\* reading the "out" property
vp_read_out ==
    /\ ~vp_out.read
    /\ vp_out' = [read |-> TRUE, val |-> out(vp_inp)]
    /\ UNCHANGED vp_inp

\* ------------------------------------------------------------------------
\* DGValProp objects and the DGIn objects they refer to: input changes and
\* repeated reads of "out"
\* ------------------------------------------------------------------------
MaxChanges == 2

\* The DGValProp objects of the scenario
PropNames == {"a", "b"}

\* DGIn(): every parameter at its default
DGIn_defaults ==
    DGIn([electric_efficiency |-> Py(7, 10),
          thermal_efficiency |-> Py(0, 1),
          installed_price_dol_W |-> Py(3, 1),
          maint_cost_dol_kWh |-> Py(1, 50),
          life_yrs |-> Py(20, 1),
          elec_capacity_utilization |-> Py(17, 20),
          therm_capacity_utilization |-> Py(1, 4),
          baseline_thermal_efficiency |-> Py(9, 10),
          inflation_rate |-> Py(1, 50),
          discount_rate |-> Py(3, 20)])

\* def __init__(self, inp=DGIn()): the default value of inp is one DGIn
\* object, made when the def statement is executed
DefaultInp == "default"

\* The DGIn objects: the default one and one made for each DGValProp
DGInObjects == {DefaultInp} \cup PropNames

\* DGValProp.__init__: self.inp = inp, a reference to the caller's object or
\* to the default object
DGValProp(inp, defaulted) == [inp |-> inp, defaulted |-> defaulted]

\* the DGIn object of a DGValProp: prop.inp
Inp(objects, prop) == objects[prop.inp]

\* (mutant of prop_out) the metrics of the first read, kept
prop_out_cached(cache, inp) ==
    IF cache # <<>> THEN cache[Len(cache)].val ELSE out(inp)

\* @property out: the metrics, computed from self.inp at every read
prop_out(cache, inp) == out(inp)

\* The inputs of the DGValProp objects made with an explicit DGIn
PropKws ==
    [electric_efficiency : {Py(1, 2)},
     thermal_efficiency : {Formula},
     installed_price_dol_W : {Py(219, 100)},
     maint_cost_dol_kWh : {Py(1, 50)},
     life_yrs : {Py(MaxLife, 1)},
     elec_capacity_utilization : {Py(1, 2)},
     therm_capacity_utilization : {Py(1, 4)},
     baseline_thermal_efficiency : {Py(1, 1)},
     inflation_rate : {Py(0, 1)},
     discount_rate : {Py(1, 4)}]

\* The data sets the rates are bound from
PropDataSets ==
    {EIAStateDataSet(Np(1, 10), Np(1, 25), PyNaN),
     EIAStateDataSet(Np(1, 5), PyNaN, PyNaN)}

\* The attribute overrides: prop.inp.<name> = value
PropOverrides ==
    {<<"installed_price_dol_W", Py(219, 50)>>,
     <<"life_yrs", Py(1, 1)>>}

\* The DGValProp objects, each made as DGValProp() or as
\* DGValProp(DGIn(...)) with a DGIn object of its own
pr_Init ==
    /\ \E kw \in PropKws, defaulted \in [PropNames -> BOOLEAN] :
          /\ dgin_objects =
                 [o \in DGInObjects |->
                     IF o = DefaultInp THEN DGIn_defaults ELSE DGIn(kw)]
          /\ props = [p \in PropNames |->
                         DGValProp(IF defaulted[p] THEN DefaultInp ELSE p,
                                   defaulted[p])]
    /\ versions = [o \in DGInObjects |-> 0]
    /\ reads = [p \in PropNames |-> <<>>]
    /\ last_op = "none"

\* the number of changes made so far
RECURSIVE pr_changes_of(_)
pr_changes_of(objects) ==
    IF objects = {} THEN 0
    ELSE LET o == CHOOSE x \in objects : TRUE
         IN  versions[o] + pr_changes_of(objects \ {o})
pr_changes == pr_changes_of(DGInObjects)

\* a change of the DGIn object of prop p
pr_change(p, new) ==
    /\ pr_changes < MaxChanges
    /\ dgin_objects' = [dgin_objects EXCEPT ![props[p].inp] = new]
    /\ versions' = [versions EXCEPT ![props[p].inp] = @ + 1]
    /\ last_op' = p
    /\ UNCHANGED <<props, reads>>

\* prop.inp.set_spread(StateDataSet)
pr_set_spread ==
    \E p \in PropNames, data \in PropDataSets :
        pr_change(p, set_spread(Inp(dgin_objects, props[p]), data))

\* prop.inp.<name> = value
pr_setattr ==
    \E p \in PropNames, o \in PropOverrides :
        pr_change(p, setattr(Inp(dgin_objects, props[p]), o[1], o[2]))

\* the last two elements of a list
LastTwo(l) == IF Len(l) > 2 THEN SubSeq(l, Len(l) - 1, Len(l)) ELSE l

\* prop.out, for inputs of at most MaxLife years
pr_read_out ==
    \E p \in PropNames :
        /\ Inp(dgin_objects, props[p])["life_yrs"].n <= MaxLife
        /\ reads' = [reads EXCEPT ![p] =
               LastTwo(Append(@,
                   [ver |-> versions[props[p].inp],
                    val |-> prop_out(reads[p], Inp(dgin_objects, props[p]))]))]
        /\ last_op' = "none"
        /\ UNCHANGED <<dgin_objects, props, versions>>

\* ------------------------------------------------------------------------
\* SensitivityStudy (DGValueProp.py)
\* ------------------------------------------------------------------------
MaxLen == 2

\* x_param_name = None, the default
NoneName == "None"

\* The names a sweep is run over: fields of DGIn, a name that is no field,
\* and None
XNames == {"installed_price_dol_W", "elec_rate_dol_kWh", "sweep_param", NoneName}
YNames == {"electric_efficiency", "installed_price_dol_W", "sweep_param"}

SweepValues(name) ==
    CASE name = "installed_price_dol_W" -> {Py(219, 100), Py(219, 50), Py(657, 100)}
      [] name = "electric_efficiency" -> {Py(1, 4), Py(1, 2), Py(1, 1)}
      [] name = "elec_rate_dol_kWh" -> {Py(1, 10), Py(1, 5), Py(3, 10)}
      [] OTHER -> {Py(1, 1), Py(2, 1), Py(3, 1)}

\* The lists of at most n elements of S, in ascending order: the values of a
\* sweep, as np.linspace or np.arange give them
Lists(S, n) ==
    {l \in UNION {[1..len -> S] : len \in 0..n} :
        \A i \in 1..Len(l) - 1 : NumLt(l[i], l[i + 1])}

\* The nominal scenario of a study
StudyKws ==
    [electric_efficiency : {Py(1, 2)},
     thermal_efficiency : {Py(0, 1), Formula},
     installed_price_dol_W : {Py(219, 100)},
     maint_cost_dol_kWh : {Py(1, 50)},
     life_yrs : {Py(MaxLife, 1)},
     elec_capacity_utilization : {Py(1, 2)},
     therm_capacity_utilization : {Py(1, 4)},
     baseline_thermal_efficiency : {Py(1, 1)},
     inflation_rate : {Py(1, 10)},
     discount_rate : {Py(1, 4)}]

\* RegionalData.Data[Year] of the study's region, sector and year
StudyDataSets ==
    {EIAStateDataSet(Np(1, 5), Np(1, 25), Np(1000000000, 1)),
     EIAStateDataSet(PyNaN, Np(1, 25), Np(1000000000, 1)),
     EIAStateDataSet(Np(1, 10), PyNaN, PyNaN)}

\* setattr(inp, None, value) raises TypeError: the attribute name must be a string
SetattrRaises(name) == name = NoneName

\* (mutant of StudyCell) the y parameter set before the x parameter
StudyCell_xLast(a, i, j) ==
    setattr(setattr(set_spread(DGIn(a.kw), a.data),
                    a.y_param_name, a.y_param_values[j]),
            a.x_param_name, a.x_param_values[i])

\* One pass of the loop body: a new DGIn of the nominal scenario, the rates
\* of the region and year, then the x and the y parameter set by name
StudyCell(a, i, j) ==
    setattr(setattr(set_spread(DGIn(a.kw), a.data),
                    a.x_param_name, a.x_param_values[i]),
            a.y_param_name, a.y_param_values[j])

NoMetric == [name |-> "none", exc |-> "none", shape |-> <<>>, cells |-> <<>>]

\* The cells of an n x m list of lists, in the order the comprehension of
\* get_val_metric reads them: rows j, then columns i
CellOrder(c, m) == (c[1] - 1) * m + c[2]

\* np.array of the rows of one metric, given every cell's "out": the cells
\* are read in order and the first "out" that raises ends the call.
\* np.array of an empty list has shape (0,).
np_array(outs, m, n, val_metric) ==
    LET bad == {c \in DOMAIN outs : outs[c].exc # "none"}
    IN  IF bad # {}
        THEN [name |-> val_metric,
              exc |-> outs[CHOOSE c \in bad :
                              \A b \in bad : CellOrder(c, m) <= CellOrder(b, m)].exc,
              shape |-> <<>>, cells |-> <<>>]
        ELSE [name |-> val_metric, exc |-> "none",
              shape |-> IF n = 0 THEN <<0>> ELSE <<n, m>>,
              cells |-> [c \in DOMAIN outs |-> outs[c][val_metric]]]

\* get_val_metric(val_metric): np.array of the nested list
\* [[study[j][i].out.val_metric for i in range(m)] for j in range(n)]
get_val_metric(study, m, n, val_metric) ==
    np_array([c \in (1..n) \X (1..m) |-> out(study[c])], m, n, val_metric)

Metrics == {"NPV_dol_kWh", "PB_yrs", "MaxMarketPen", "Effective_Electric_Efficiency"}

ss_m == Len(ss_args.x_param_values)
ss_n == Len(ss_args.y_param_values)

\* SensitivityStudy(...) is called: Study is n rows of m None, no cell built
ss_Init ==
    /\ \E xn \in XNames, yn \in YNames, kw \in StudyKws, data \in StudyDataSets :
         \E xv \in Lists(SweepValues(xn), MaxLen), yv \in Lists(SweepValues(yn), MaxLen) :
            ss_args = [x_param_name |-> xn, x_param_values |-> xv,
                       y_param_name |-> yn, y_param_values |-> yv,
                       kw |-> kw, data |-> data]
    /\ ss_pc = "loop" /\ ss_i = 1 /\ ss_j = 1
    /\ ss_study = <<>>
    /\ ss_metric = NoMetric

\* The loop body for (i, j): x is the outer loop, y the inner one
ss_cell ==
    /\ ss_pc = "loop" /\ ss_i <= ss_m /\ ss_n >= 1
    /\ IF SetattrRaises(ss_args.x_param_name) \/ SetattrRaises(ss_args.y_param_name)
       THEN /\ ss_pc' = "raised"
            /\ UNCHANGED <<ss_i, ss_j, ss_study>>
       ELSE /\ ss_study' = [c \in DOMAIN ss_study \cup {<<ss_j, ss_i>>} |->
                               IF c = <<ss_j, ss_i>>
                               THEN StudyCell(ss_args, ss_i, ss_j)
                               ELSE ss_study[c]]
            /\ IF ss_j < ss_n
               THEN ss_j' = ss_j + 1 /\ ss_i' = ss_i
               ELSE ss_j' = 1 /\ ss_i' = ss_i + 1
            /\ UNCHANGED ss_pc
    /\ UNCHANGED <<ss_args, ss_metric>>

\* The loops are over: self.study = Study
ss_done ==
    /\ ss_pc = "loop" /\ (ss_i > ss_m \/ ss_n = 0)
    /\ ss_pc' = "done"
    /\ UNCHANGED <<ss_args, ss_i, ss_j, ss_study, ss_metric>>

\* A call of get_val_metric on the constructed study
ss_get_val_metric ==
    /\ ss_pc = "done" /\ ss_metric = NoMetric
    /\ \E val_metric \in Metrics :
          ss_metric' = get_val_metric(ss_study, ss_m, ss_n, val_metric)
    /\ UNCHANGED <<ss_args, ss_pc, ss_i, ss_j, ss_study>>

\* ------------------------------------------------------------------------
\* MarketStudy.__init__ (DGMarketStudy.py)
\* ------------------------------------------------------------------------
MaxRegions == 3

\* A SensitivityStudy object as MarketStudy uses it: its constructor run to
\* the end (every sweep name of a market study is a string)
SensitivityStudy(a) ==
    [NetGeneration_TWh |-> Div(a.data.net_generation_kWh, Py(1000000000, 1)),
     study |-> [c \in (1..Len(a.y_param_values)) \X (1..Len(a.x_param_values)) |->
                   StudyCell(a, c[2], c[1])]]

\* A numpy array: its shape and its cells
Array(shape, cells) == [shape |-> shape, cells |-> cells]

\* np.zeros((n, m))
Zeros(n, m) == Array(<<n, m>>, [c \in (1..n) \X (1..m) |-> MVZero])

\* (mutant of region_AddressedMarket_TWh) the penetration grid, unweighted
UnweightedMarket(region_TotalMarket_TWh, metric) ==
    Array(metric.shape, metric.cells)

\* region_TotalMarket_TWh * get_val_metric('MaxMarketPen'): a new array
region_AddressedMarket_TWh(region_TotalMarket_TWh, metric) ==
    Array(metric.shape,
          [c \in DOMAIN metric.cells |-> MVMul(metric.cells[c], region_TotalMarket_TWh)])

\* (mutant of IAdd) the array takes the values of the other one
IAssign(array, other) == Array(array.shape, other.cells)

\* array += array, in place
IAdd(array, other) ==
    Array(array.shape, [c \in DOMAIN array.cells |-> MVAdd(array.cells[c], other.cells[c])])

\* (mutant of MarketPenetration) a division guarded against a zero total
GuardedPenetration(array, total) ==
    Array(array.shape,
          [c \in DOMAIN array.cells |->
              IF IsZero(total) THEN MVZero ELSE MVDiv(array.cells[c], total)])

\* AddressedMarket_TWh[sector][year] / TotalMarket_TWh[sector][year]: an
\* array divided by a number, a new array
MarketPenetration(array, total) ==
    Array(array.shape, [c \in DOMAIN array.cells |-> MVDiv(array.cells[c], total)])

\* (mutant of PrimaryEnergySavings) the savings without the division by the
\* grid's baseline efficiency
SavingsNotPerBaseline(addressed, g, eee) ==
    Array(addressed.shape,
          [c \in DOMAIN addressed.cells |->
              MVMul(addressed.cells[c],
                    Sub(Np(1, 1), Div(ToArray(g), ToArray(eee.cells[c]))))])

\* AddressedMarket_TWh / g * (1 - g / get_val_metric('Effective_Electric_Efficiency'))
PrimaryEnergySavings(addressed, g, eee) ==
    Array(addressed.shape,
          [c \in DOMAIN addressed.cells |->
              MVMul(MVDiv(addressed.cells[c], ToArray(g)),
                    Sub(Np(1, 1), Div(ToArray(g), ToArray(eee.cells[c]))))])

\* TWh per quad
TWhPerQuad == Py(2931, 10)

\* PrimaryEnergySavings_TWh[sector][year] / 293.1
Quads(array) ==
    Array(array.shape, [c \in DOMAIN array.cells |-> MVDiv(array.cells[c], TWhPerQuad)])

\* The sweep and the nominal scenario of a market study
MarketSweeps ==
    {[x_param_name |-> "installed_price_dol_W",
      x_param_values |-> <<Py(219, 100), Py(219, 50)>>,
      y_param_name |-> "electric_efficiency",
      y_param_values |-> <<Py(1, 2)>>],
     [x_param_name |-> "installed_price_dol_W",
      x_param_values |-> <<Py(219, 100)>>,
      y_param_name |-> "electric_efficiency",
      y_param_values |-> <<Py(1, 2), Py(1, 1)>>]}

MarketKw ==
    [electric_efficiency |-> Py(1, 2), thermal_efficiency |-> Formula,
     installed_price_dol_W |-> Py(219, 100), maint_cost_dol_kWh |-> Py(1, 50),
     life_yrs |-> Py(MaxLife, 1), elec_capacity_utilization |-> Py(1, 2),
     therm_capacity_utilization |-> Py(1, 4),
     baseline_thermal_efficiency |-> Py(1, 1), inflation_rate |-> Py(1, 10),
     discount_rate |-> Py(1, 4)]

\* The regions of the data base
RegionNames == {"US", "NY", "TX", "AK"}

\* EIAStateQuery(Region, Sector).Data: per year the rates and the sector's
\* electricity consumption in kWh (never negative), each nan when its series
\* has no value for the year.  The data base has a region with a good margin
\* in the commercial sector (US), one with a thin margin and without
\* consumption in 2015 (NY), one with no consumption series (TX) and one
\* with no rate series (AK).  The consumptions are 0.2, 0.3 and 0.1 TWh,
\* none of them a binary fraction.
EIAStateQuery(Region, Sector) ==
    [year \in {2014, 2015} |->
        CASE Region = "US" ->
                EIAStateDataSet(IF Sector = "COM" THEN Np(1, 5) ELSE Np(1, 10),
                                Np(1, 25), Np(200000000, 1))
          [] Region = "NY" ->
                EIAStateDataSet(Np(1, 10), Np(1, 25),
                                IF year = 2015 THEN Np(0, 1) ELSE Np(300000000, 1))
          [] Region = "TX" ->
                EIAStateDataSet(Np(1, 10), Np(1, 25), PyNaN)
          [] OTHER ->
                EIAStateDataSet(PyNaN, PyNaN, Np(100000000, 1))]

\* The Regions lists: no region twice
RegionLists ==
    UNION {{r \in [1..n -> RegionNames] : \A i, j \in 1..n : i # j => r[i] # r[j]} :
             n \in 0..MaxRegions}

\* The Sectors and Years lists of a market study
SectorYearLists ==
    {<<<<"COM">>, <<2015>>>>, <<<<"COM">>, <<2014, 2015>>>>,
     <<<<"COM", "IND">>, <<2015>>>>}

ms_nS == Len(ms_args.Sectors)
ms_nY == Len(ms_args.Years)
ms_nR == Len(ms_args.Regions)
ms_m == Len(ms_args.sweep.x_param_values)
ms_n == Len(ms_args.sweep.y_param_values)
ms_keys == (1..ms_nS) \X (1..ms_nY)
ms_key == <<ms_si, ms_yi>>

\* A reference to a new array
NewArray == Cardinality(DOMAIN arrays) + 1
SensZeros == 1

\* MarketStudy(...) up to the loops: every dictionary entry of the four
\* grids refers to the one array SensZeros; no region is bound
ms_Init ==
    /\ \E Regions \in RegionLists, sy \in SectorYearLists, sweep \in MarketSweeps :
          ms_args = [Regions |-> Regions, Sectors |-> sy[1], Years |-> sy[2],
                     sweep |-> sweep, kw |-> MarketKw,
                     grid_baseline_elec_efficiency |-> Py(17, 50)]
    /\ ms_pc = "loop" /\ ms_si = 1 /\ ms_yi = 1 /\ ms_ri = 1
    /\ ms_region = "unbound"
    /\ arrays = (SensZeros :> Zeros(ms_n, ms_m))
    /\ studyPortfolio = [key \in ms_keys |-> <<>>]
    /\ TotalMarket_TWh = [key \in ms_keys |-> Py(0, 1)]
    /\ AddressedMarket_TWh = [key \in ms_keys |-> SensZeros]
    /\ TotalMarketPen = [key \in ms_keys |-> SensZeros]
    /\ PrimaryEnergySavings_TWh = [key \in ms_keys |-> SensZeros]
    /\ PrimaryEnergySavings_Quads = [key \in ms_keys |-> SensZeros]

\* (mutant of ms_accumulate) the first region too is added in place, to the
\* array the entry refers to
ms_accumulate_inplace(region_TotalMarket_TWh, region_Addressed) ==
    /\ TotalMarket_TWh' =
           [TotalMarket_TWh EXCEPT ![ms_key] =
               IF IsZero(@) THEN region_TotalMarket_TWh
               ELSE Add(@, region_TotalMarket_TWh)]
    /\ arrays' = [arrays EXCEPT
                     ![AddressedMarket_TWh[ms_key]] = IAdd(@, region_Addressed)]
    /\ UNCHANGED AddressedMarket_TWh

\* The accumulation of a region into the sector's and year's totals: the
\* first region of a total still 0 is assigned, every other one is added,
\* the array in place
ms_accumulate(region_TotalMarket_TWh, region_Addressed) ==
    IF IsZero(TotalMarket_TWh[ms_key])
    THEN /\ TotalMarket_TWh' = [TotalMarket_TWh EXCEPT ![ms_key] = region_TotalMarket_TWh]
         /\ AddressedMarket_TWh' = [AddressedMarket_TWh EXCEPT ![ms_key] = NewArray]
         /\ arrays' = arrays @@ (NewArray :> region_Addressed)
    ELSE /\ TotalMarket_TWh' =
                [TotalMarket_TWh EXCEPT ![ms_key] = Add(@, region_TotalMarket_TWh)]
         /\ arrays' = [arrays EXCEPT
                          ![AddressedMarket_TWh[ms_key]] = IAdd(@, region_Addressed)]
         /\ UNCHANGED AddressedMarket_TWh

\* The region's market and addressed market, given its study and the study's
\* penetration grid; a get_val_metric that raises ends the market study
ms_region_market(s, metric) ==
    IF metric.exc # "none"
    THEN /\ ms_pc' = "raised"
         /\ UNCHANGED <<ms_ri, TotalMarket_TWh, AddressedMarket_TWh, arrays>>
    ELSE /\ ms_accumulate(s.NetGeneration_TWh,
                          region_AddressedMarket_TWh(s.NetGeneration_TWh, metric))
         /\ ms_ri' = ms_ri + 1
         /\ UNCHANGED ms_pc

\* The region's sensitivity study is stored, then read for the region's market
ms_region_study(region, s) ==
    /\ studyPortfolio' = [studyPortfolio EXCEPT ![ms_key] = (region :> s) @@ @]
    /\ ms_region' = region
    /\ ms_region_market(s, get_val_metric(s.study, ms_m, ms_n, "MaxMarketPen"))

\* The body of the loop over the regions, for the region at ms_ri
ms_region_body ==
    /\ ms_pc = "loop" /\ ms_ri <= ms_nR
    /\ ms_region_study(
          ms_args.Regions[ms_ri],
          SensitivityStudy(
             [x_param_name |-> ms_args.sweep.x_param_name,
              x_param_values |-> ms_args.sweep.x_param_values,
              y_param_name |-> ms_args.sweep.y_param_name,
              y_param_values |-> ms_args.sweep.y_param_values,
              kw |-> ms_args.kw,
              data |-> EIAStateQuery(ms_args.Regions[ms_ri],
                                     ms_args.Sectors[ms_si])[ms_args.Years[ms_yi]]]))
    /\ UNCHANGED <<ms_args, ms_si, ms_yi, TotalMarketPen,
                   PrimaryEnergySavings_TWh, PrimaryEnergySavings_Quads>>

\* The next year, the next sector, or the end of the loops
ms_next_year ==
    /\ ms_ri' = 1
    /\ IF ms_yi < ms_nY
       THEN ms_yi' = ms_yi + 1 /\ UNCHANGED <<ms_si, ms_pc>>
       ELSE IF ms_si < ms_nS
       THEN ms_si' = ms_si + 1 /\ ms_yi' = 1 /\ UNCHANGED ms_pc
       ELSE ms_pc' = "done" /\ UNCHANGED <<ms_si, ms_yi>>

\* The three new arrays of a sector and year
ms_results(pen, pes) ==
    /\ TotalMarketPen' = [TotalMarketPen EXCEPT ![ms_key] = NewArray]
    /\ PrimaryEnergySavings_TWh' = [PrimaryEnergySavings_TWh EXCEPT ![ms_key] = NewArray + 1]
    /\ PrimaryEnergySavings_Quads' =
            [PrimaryEnergySavings_Quads EXCEPT ![ms_key] = NewArray + 2]
    /\ arrays' = arrays @@ (NewArray :> pen) @@ (NewArray + 1 :> pes)
                        @@ (NewArray + 2 :> Quads(pes))

\* After the loop over the regions: the penetration, then the primary energy
\* savings, which read the study of the name "region", bound by the loop over
\* the regions and unbound when that loop has never run a body
ms_after_regions ==
    /\ ms_pc = "loop" /\ ms_ri > ms_nR
    /\ IF ms_region = "unbound"
       THEN /\ TotalMarketPen' = [TotalMarketPen EXCEPT ![ms_key] = NewArray]
            /\ arrays' = arrays @@
                  (NewArray :> MarketPenetration(arrays[AddressedMarket_TWh[ms_key]],
                                                 TotalMarket_TWh[ms_key]))
            /\ ms_pc' = "raised"
            /\ UNCHANGED <<ms_si, ms_yi, ms_ri, PrimaryEnergySavings_TWh,
                           PrimaryEnergySavings_Quads>>
       ELSE /\ ms_results(
                  MarketPenetration(arrays[AddressedMarket_TWh[ms_key]],
                                    TotalMarket_TWh[ms_key]),
                  PrimaryEnergySavings(
                     arrays[AddressedMarket_TWh[ms_key]],
                     ms_args.grid_baseline_elec_efficiency,
                     get_val_metric(studyPortfolio[ms_key][ms_region].study,
                                    ms_m, ms_n, "Effective_Electric_Efficiency")))
            /\ ms_next_year
    /\ UNCHANGED <<ms_args, ms_region, studyPortfolio, TotalMarket_TWh,
                   AddressedMarket_TWh>>

\* ------------------------------------------------------------------------
\* Specifications
\* ------------------------------------------------------------------------
ss_Idle ==
    /\ ss_args = <<>> /\ ss_pc = "idle" /\ ss_i = 0 /\ ss_j = 0
    /\ ss_study = <<>> /\ ss_metric = NoMetric

ms_Idle ==
    /\ ms_args = <<>> /\ ms_pc = "idle" /\ ms_si = 0 /\ ms_yi = 0 /\ ms_ri = 0
    /\ ms_region = "unbound"
    /\ studyPortfolio = <<>> /\ TotalMarket_TWh = <<>> /\ AddressedMarket_TWh = <<>>
    /\ TotalMarketPen = <<>> /\ PrimaryEnergySavings_TWh = <<>>
    /\ PrimaryEnergySavings_Quads = <<>> /\ arrays = <<>>

pr_Idle ==
    /\ dgin_objects = <<>> /\ props = <<>> /\ versions = <<>> /\ reads = <<>>
    /\ last_op = "none"

\* The valuation engine: every DGIn, bound to every rate pair, read once
InitOut == np_irr_raises \in BOOLEAN /\ vp_Init /\ ss_Idle /\ ms_Idle /\ pr_Idle
NextOut ==
    \/ vp_set_spread /\ UNCHANGED <<libVars, ssVars, msVars, prVars>>
    \/ vp_read_out /\ UNCHANGED <<libVars, ssVars, msVars, prVars>>
SpecOut == InitOut /\ [][NextOut]_vars

\* One sensitivity study: construction cell by cell, then one metric grid
InitStudy == np_irr_raises \in BOOLEAN /\ vp_Idle /\ ss_Init /\ ms_Idle /\ pr_Idle
NextStudy ==
    \/ ss_cell /\ UNCHANGED <<libVars, vpVars, msVars, prVars>>
    \/ ss_done /\ UNCHANGED <<libVars, vpVars, msVars, prVars>>
    \/ ss_get_val_metric /\ UNCHANGED <<libVars, vpVars, msVars, prVars>>
SpecStudy == InitStudy /\ [][NextStudy]_vars

\* DGValProp objects: changes of their inputs and reads of their outputs
InitProps == np_irr_raises \in BOOLEAN /\ vp_Idle /\ ss_Idle /\ ms_Idle /\ pr_Init
NextProps ==
    \/ pr_set_spread /\ UNCHANGED <<libVars, vpVars, ssVars, msVars>>
    \/ pr_setattr /\ UNCHANGED <<libVars, vpVars, ssVars, msVars>>
    \/ pr_read_out /\ UNCHANGED <<libVars, vpVars, ssVars, msVars>>
SpecProps == InitProps /\ [][NextProps]_vars

\* One market study: region by region, year by year, sector by sector
Init == np_irr_raises \in BOOLEAN /\ vp_Idle /\ ss_Idle /\ ms_Init /\ pr_Idle
Next ==
    \/ ms_region_body /\ UNCHANGED <<libVars, vpVars, ssVars, prVars>>
    \/ ms_after_regions /\ UNCHANGED <<libVars, vpVars, ssVars, prVars>>
Spec == Init /\ [][Next]_vars

\* ------------------------------------------------------------------------
\* Claims about the valuation engine (SpecOut)
\* ------------------------------------------------------------------------
vp_returned == vp_out.read /\ vp_out.val.exc = "none"

\* C7: evaluating the outputs of inputs with a positive integer life_yrs never
\* raises; every numeric degeneracy yields NaN/undefined fields.  Stated for
\* the numpy builds most favourable to it, those where a failure of np.irr is
\* caught by "except ValueError".
C7_OutNeverRaises ==
    (vp_out.read /\ ~np_irr_raises) => vp_out.val.exc = "none"

\* The cash flows of C9, from the inputs: CF[0] = -installed price x 1000 /
\* (8760 x utilization), CF[1] = operating margin x (1 + inflation rate)
C9_CF0(inp) ==
    ToArray(Neg(Div(Mul(inp["installed_price_dol_W"], Py(1000, 1)),
                    Mul(Py(8760, 1), inp["elec_capacity_utilization"]))))
C9_CF1(inp) ==
    ToArray(Mul(Add(Sub(inp["elec_rate_dol_kWh"],
                        Add(Div(inp["ng_rate_dol_kWh"], inp["electric_efficiency"]),
                            inp["maint_cost_dol_kWh"])),
                    Mul(Div(Mul(inp["ng_rate_dol_kWh"], inp["thermal_efficiency"]),
                            Mul(inp["electric_efficiency"],
                                inp["baseline_thermal_efficiency"])),
                        inp["therm_capacity_utilization"])),
                Add(Py(1, 1), inp["inflation_rate"])))

\* C9: the payback period returned is the raw quotient -CF[0]/CF[1]; when
\* CF[1] < 0 (and CF[0] < 0) it is negative, never clamped to 0 or replaced.
C9_PaybackIsRawQuotient ==
    vp_returned =>
        /\ SameNum(vp_out.val.PB_yrs, Div(Neg(C9_CF0(vp_inp)), C9_CF1(vp_inp)))
        /\ (Lt0(C9_CF1(vp_inp)) /\ Lt0(C9_CF0(vp_inp))) => Lt0(vp_out.val.PB_yrs)

\* a loss-making scenario was evaluated: CF[1] < 0 and a finite negative payback
C9_Witness ==
    /\ vp_returned
    /\ Lt0(C9_CF1(vp_inp)) /\ IsFin(C9_CF1(vp_inp))
    /\ IsFin(vp_out.val.PB_yrs) /\ vp_out.val.PB_yrs.n < 0

\* C10: for every life_yrs > 0 a negative payback period gives a maximum
\* market penetration of exactly 0; so does every scenario whose first-year
\* operating cash flow is negative and whose installed price is positive.
C10_NegativePaybackNoMarket ==
    vp_returned =>
        /\ Lt0(vp_out.val.PB_yrs) => vp_out.val.MaxMarketPen = MVZero
        /\ (Lt0(CashFlows_dol_kWh(vp_inp)[1])
               /\ Sign(vp_inp["installed_price_dol_W"]) > 0)
           => vp_out.val.MaxMarketPen = MVZero

\* a scenario with a finite negative payback and life_yrs = 2 was evaluated
C10_Witness ==
    /\ vp_returned
    /\ IsFin(vp_out.val.PB_yrs) /\ vp_out.val.PB_yrs.n < 0
    /\ vp_inp["life_yrs"].n = 2
    /\ vp_out.val.MaxMarketPen = MVZero

\* The value G(z) = A/sqrt(2 pi)/sigma x exp(-(z/sigma)^2/2) of a cell, or 0:
\* exp of a non-positive number is in (0, 1], so G(z) is in (0, G(0)]
IsCurveValue(m) ==
    /\ m.k = "fin"
    /\ \A x \in m.t : x.cn = 1 /\ x.cd = 1
    /\ Cardinality(m.t) <= 1

\* C11: for every life_yrs > 0 and every payback period (negative, zero,
\* positive, infinite, nan) the maximum market penetration is 0 or a value
\* G(z) of the curve, hence in [0, G(0)]; at payback 0 it is the peak
\* G(0) = A/(sigma x sqrt(2 pi)), and the peak is at most 1:
\* (A/sigma)^2/2 <= 333/106 < pi.
C11_PenetrationInUnitInterval ==
    vp_returned =>
        /\ IsCurveValue(vp_out.val.MaxMarketPen)
        /\ IsZero(vp_out.val.PB_yrs) =>
              vp_out.val.MaxMarketPen = MVGauss(Np(0, 1))
        /\ PeakSquaredTimesPi.n * 106 <= 333 * PeakSquaredTimesPi.d

\* a scenario with payback 0 (no installed price, a positive margin) was
\* evaluated: its penetration is the peak of the curve
C11_Witness ==
    /\ vp_returned
    /\ IsZero(vp_out.val.PB_yrs)
    /\ vp_out.val.MaxMarketPen = MVGauss(Np(0, 1))

\* x in (0, 1]
InUnit(x) == IsFin(x) /\ x.n > 0 /\ x.n <= x.d

\* Valid inputs: utilizations and efficiencies in (0, 1] (a thermal
\* efficiency of 0, DGIn's default, included), discount_rate > -1,
\* life_yrs >= 1, an installed price >= 0 and known rates
ValidInputs(inp) ==
    /\ InUnit(inp["electric_efficiency"])
    /\ InUnit(inp["elec_capacity_utilization"])
    /\ InUnit(inp["therm_capacity_utilization"])
    /\ InUnit(inp["baseline_thermal_efficiency"])
    /\ IsFin(inp["thermal_efficiency"]) /\ inp["thermal_efficiency"].n >= 0
    /\ NumLt(Py(-1, 1), inp["discount_rate"])
    /\ inp["life_yrs"].n >= 1
    /\ IsFin(inp["installed_price_dol_W"]) /\ inp["installed_price_dol_W"].n >= 0
    /\ IsFin(inp["elec_rate_dol_kWh"]) /\ IsFin(inp["ng_rate_dol_kWh"])

\* The installed prices larger than the one of the inputs
LargerPrices(inp) ==
    {p \in ParamValues("installed_price_dol_W") : NumLt(inp["installed_price_dol_W"], p)}

\* The outputs of the same inputs at another installed price
Repriced(inp, p) == out(setattr(inp, "installed_price_dol_W", p))

\* C12: every other (valid) input held fixed, a larger installed_price_dol_W
\* gives a strictly smaller NPV.
C12_NPVDecreasesWithPrice ==
    (vp_returned /\ ValidInputs(vp_inp)) =>
        \A p \in LargerPrices(vp_inp) :
            /\ Repriced(vp_inp, p).exc = "none"
            /\ NumLt(Repriced(vp_inp, p).NPV_dol_kWh, vp_out.val.NPV_dol_kWh)

\* valid inputs with a positive installed price, below another one, were
\* evaluated, with a finite NPV
C12_Witness ==
    /\ vp_returned /\ ValidInputs(vp_inp)
    /\ vp_inp["installed_price_dol_W"].n > 0
    /\ LargerPrices(vp_inp) # {}
    /\ IsFin(vp_out.val.NPV_dol_kWh)

\* C13 as stated: every other (valid) input held fixed, a larger
\* installed_price_dol_W gives a strictly larger payback period, whatever the
\* sign of the first-year operating cash flow.
C13_PaybackIncreasesWithPrice ==
    (vp_returned /\ ValidInputs(vp_inp)) =>
        \A p \in LargerPrices(vp_inp) :
            NumLt(vp_out.val.PB_yrs, Repriced(vp_inp, p).PB_yrs)

\* C13, amended: a larger installed_price_dol_W gives a strictly larger
\* payback period when the first-year operating cash flow is positive, a
\* strictly smaller (more negative) one when it is negative, and the same
\* payback +inf when it is zero and the installed price is positive.
C13_PaybackFollowsMarginSign ==
    (vp_returned /\ ValidInputs(vp_inp)) =>
        \A p \in LargerPrices(vp_inp) :
            LET CF1 == CashFlows_dol_kWh(vp_inp)[1]
                PB2 == Repriced(vp_inp, p).PB_yrs
            IN  /\ Sign(CF1) > 0 => NumLt(vp_out.val.PB_yrs, PB2)
                /\ Sign(CF1) < 0 => NumLt(PB2, vp_out.val.PB_yrs)
                /\ (IsZero(CF1) /\ vp_inp["installed_price_dol_W"].n > 0) =>
                      vp_out.val.PB_yrs.k = "pinf" /\ PB2.k = "pinf"

\* valid loss-making inputs with a positive installed price, below another
\* one, were evaluated: the payback is negative
C13_Witness ==
    /\ vp_returned /\ ValidInputs(vp_inp)
    /\ vp_inp["installed_price_dol_W"].n > 0
    /\ LargerPrices(vp_inp) # {}
    /\ Sign(CashFlows_dol_kWh(vp_inp)[1]) < 0
    /\ Lt0(vp_out.val.PB_yrs)

\* The outputs of the same inputs with the electricity rate set to their LCOE
AtBreakEven(inp) == out(setattr(inp, "elec_rate_dol_kWh", LCOE(inp)))

\* |x| <= |t|, for a float t other than 0
FloatWithin(x, t) ==
    /\ x.k = "fin"
    /\ \/ FloatIsZero(x)
       \/ x.e < t.e
       \/ x.e = t.e /\ NatCmp(x.m, t.m) <= 0

\* 2^-50 $/kWh: a few units in the last place of the cash flows, which are
\* of the order of 1 $/kWh
RoundingTolerance == Float(0, <<0, 0, 0, 128>>, -102)

C15_OutputsNeverCached ==
    \A p \in DOMAIN props :
        /\ \A k \in 1..Len(reads[p]) :
              reads[p][k].ver = versions[props[p].inp] =>
                  reads[p][k].val = out(Inp(dgin_objects, props[p]))
        /\ (Len(reads[p]) = 2 /\ reads[p][1].ver = reads[p][2].ver) =>
              reads[p][1].val = reads[p][2].val

\* out was read before and after a change of the inputs: the second read
\* returned other metrics, those of the changed inputs
C15_Witness ==
    \E p \in DOMAIN props :
        /\ Len(reads[p]) = 2
        /\ reads[p][1].ver < reads[p][2].ver
        /\ reads[p][2].ver = versions[props[p].inp]
        /\ reads[p][1].val.exc = "none" /\ reads[p][2].val.exc = "none"
        /\ reads[p][1].val # reads[p][2].val
        /\ reads[p][2].val = out(Inp(dgin_objects, props[p]))

\* the inputs of a DGValProp can be evaluated in the model
Readable(inp) == inp["life_yrs"].n <= MaxLife

\* C20: two DGValProp objects made without an explicit inputs argument have
\* independent inputs: a set_spread or an attribute override made through one
\* of them changes neither the inputs nor the outputs of the other.
C20_DefaultInputsIndependent ==
    [][\A p, q \in DOMAIN props :
          (p # q /\ last_op' = p /\ versions' # versions
           /\ props[p].defaulted /\ props[q].defaulted) =>
              /\ Inp(dgin_objects', props[q]) = Inp(dgin_objects, props[q])
              /\ (Readable(Inp(dgin_objects, props[q]))
                  /\ Readable(Inp(dgin_objects', props[q]))) =>
                     out(Inp(dgin_objects', props[q]))
                         = out(Inp(dgin_objects, props[q]))]_vars

\* ------------------------------------------------------------------------
\* Claims about SensitivityStudy (SpecStudy)
\* ------------------------------------------------------------------------
ss_returned == ss_metric.name # "none" /\ ss_metric.exc = "none"

\* C5: for x_param_values of length m and y_param_values of length n,
\* get_val_metric returns an array of shape (n, m) whose entry at row j, column
\* i is the metric of the scenario with the x parameter set to
\* x_param_values[i] and the y parameter set to y_param_values[j].
C5_MetricGridShape ==
    ss_returned =>
        /\ ss_metric.shape = <<ss_n, ss_m>>
        /\ DOMAIN ss_metric.cells = (1..ss_n) \X (1..ss_m)
        /\ \A j \in 1..ss_n, i \in 1..ss_m :
              ss_metric.cells[<<j, i>>] = out(StudyCell(ss_args, i, j))[ss_metric.name]

\* C6: a study whose x or y parameter name is no field of the inputs does not
\* get through construction (stated for studies with at least one cell).
C6_UnknownNameFailsAtConstruction ==
    (ss_pc = "done" /\ ss_m >= 1 /\ ss_n >= 1) =>
        /\ ss_args.x_param_name \in DGInFields
        /\ ss_args.y_param_name \in DGInFields

\* the study's region and year carry a nan rate that no sweep overrides
ss_nan_rate ==
    \E f \in RateFields :
        /\ IsNaN(ss_args.data[f])
        /\ ss_args.x_param_name # f /\ ss_args.y_param_name # f

\* C8: with a nan electricity or gas rate in the regional data that no sweep
\* overrides, NPV, payback period and maximum market penetration are nan in
\* every cell of the grid.
C8_NaNRatePropagates ==
    (ss_returned /\ ss_nan_rate
        /\ ss_metric.name \in {"NPV_dol_kWh", "PB_yrs", "MaxMarketPen"}) =>
        \A c \in DOMAIN ss_metric.cells : ss_metric.cells[c].k = "nan"

\* The value of the formula '(1-electric_efficiency)/2' for the nominal
\* electric_efficiency of the study
NominalThermalEfficiency(a) ==
    Div(Sub(Py(1, 1), a.kw["electric_efficiency"]), Py(2, 1))

\* C16: a thermal_efficiency given as a formula string is evaluated once, at
\* DGIn construction, with the electric_efficiency passed to the constructor:
\* every cell built carries the number derived from the nominal
\* electric_efficiency, whatever electric_efficiency a sweep sets afterwards.
C16_FormulaEvaluatedOnce ==
    \A c \in DOMAIN ss_study :
        /\ ss_study[c]["thermal_efficiency"] # Formula
        /\ ss_args.kw["thermal_efficiency"] = Formula =>
              ss_study[c]["thermal_efficiency"] = NominalThermalEfficiency(ss_args)

\* a cell of a sweep over electric_efficiency was built from a formula: its
\* electric_efficiency is no more the nominal one
C16_Witness ==
    \E c \in DOMAIN ss_study :
        /\ ss_args.kw["thermal_efficiency"] = Formula
        /\ ss_args.y_param_name = "electric_efficiency"
        /\ ss_study[c]["electric_efficiency"] # ss_args.kw["electric_efficiency"]
        /\ ss_study[c]["thermal_efficiency"] = NominalThermalEfficiency(ss_args)

\* The value C18 gives field f of cell (j, i): the y value, else the x value,
\* else the regional rate, else the nominal value of the constructor
CellField(a, i, j, f) ==
    IF f = a.y_param_name THEN a.y_param_values[j]
    ELSE IF f = a.x_param_name THEN a.x_param_values[i]
    ELSE IF f \in RateFields THEN a.data[f]
    ELSE DGIn(a.kw)[f]

\* C18: every cell (j, i) built holds inputs of its own: the nominal
\* constructor values, then the rates of the region and year, then the
\* x-named field set to x_param_values[i], then the y-named field set to
\* y_param_values[j].  A sweep over a rate overrides the regional rate, the y
\* value wins when both names are equal, and no cell built later changes it.
C18_CellOwnsItsInputs ==
    \A c \in DOMAIN ss_study :
        /\ DOMAIN ss_study[c] =
               DGInFields \cup {ss_args.x_param_name, ss_args.y_param_name}
        /\ \A f \in DOMAIN ss_study[c] :
               ss_study[c][f] = CellField(ss_args, c[2], c[1], f)

\* a grid of several cells was built with both sweeps over the same field
\* and different values: the cell holds the y value
C18_Witness ==
    /\ ss_pc = "done" /\ Cardinality(DOMAIN ss_study) > 1
    /\ ss_args.x_param_name = ss_args.y_param_name
    /\ ss_args.x_param_name \in DGInFields
    /\ \E c \in DOMAIN ss_study :
          /\ ss_args.x_param_values[c[2]] # ss_args.y_param_values[c[1]]
          /\ ss_study[c][ss_args.y_param_name] = ss_args.y_param_values[c[1]]

\* ------------------------------------------------------------------------
\* Claims about MarketStudy (Spec)
\* ------------------------------------------------------------------------

\* The position of a sector and year in the loops: sectors outside, years inside
KeyOrder(key) == (key[1] - 1) * ms_nY + key[2]

\* The sector and year has been through lines 90-98
ms_finished(key) == ms_pc = "done" \/ KeyOrder(key) < KeyOrder(ms_key)

\* How many regions have been accumulated into a sector's and year's totals
ms_processed(key) ==
    IF ms_finished(key) THEN ms_nR
    ELSE IF key = ms_key THEN ms_ri - 1
    ELSE 0

\* The net generation of the r-th region and the cell c of its MaxMarketPen grid
RegionGen(key, r) == studyPortfolio[key][ms_args.Regions[r]].NetGeneration_TWh
RegionPen(key, r, c) ==
    out(studyPortfolio[key][ms_args.Regions[r]].study[c]).MaxMarketPen

\* The sums of the first k regions, in order
RECURSIVE SumGen(_, _)
SumGen(key, k) ==
    IF k = 0 THEN Np(0, 1)
    ELSE IF k = 1 THEN RegionGen(key, 1)
    ELSE Add(SumGen(key, k - 1), RegionGen(key, k))
RECURSIVE SumAddressed(_, _, _)
SumAddressed(key, k, c) ==
    IF k = 0 THEN MVZero
    ELSE IF k = 1 THEN MVMul(RegionPen(key, 1, c), RegionGen(key, 1))
    ELSE MVAdd(SumAddressed(key, k - 1, c), MVMul(RegionPen(key, k, c), RegionGen(key, k)))

ms_cells == (1..ms_n) \X (1..ms_m)

\* C1: after every prefix of the regions of a sector and year, processed in
\* order, TotalMarket_TWh is the sum of the regions' net generation and
\* AddressedMarket_TWh is, cell by cell, the sum of each region's net
\* generation times that region's MaxMarketPen grid; this includes the
\* prefixes whose running total is 0.
C1_TotalsAreSums ==
    \A key \in ms_keys :
        /\ SameNum(TotalMarket_TWh[key], SumGen(key, ms_processed(key)))
        /\ \A c \in ms_cells :
              arrays[AddressedMarket_TWh[key]].cells[c]
                 = SumAddressed(key, ms_processed(key), c)

\* two regions are in the totals of a sector and year, the first one with no
\* generation (the running total was 0 when the second was accumulated), and
\* the addressed market is not 0
C1_Witness ==
    \E key \in ms_keys :
        /\ ms_processed(key) >= 2
        /\ IsZero(RegionGen(key, 1))
        /\ IsFin(TotalMarket_TWh[key]) /\ TotalMarket_TWh[key].n > 0
        /\ \E c \in ms_cells : arrays[AddressedMarket_TWh[key]].cells[c].t # {}

\* C2: TotalMarketPen is AddressedMarket_TWh / TotalMarket_TWh cell by cell;
\* when the total market is 0 the penetration is nan in every cell.
C2_PenetrationIsQuotient ==
    \A key \in ms_keys :
        ms_finished(key) =>
            \A c \in ms_cells :
                /\ arrays[TotalMarketPen[key]].cells[c]
                      = MVDiv(arrays[AddressedMarket_TWh[key]].cells[c],
                              TotalMarket_TWh[key])
                /\ IsZero(TotalMarket_TWh[key])
                      => arrays[TotalMarketPen[key]].cells[c].k = "nan"

\* a sector and year is finished whose only region has no generation: its
\* total market is 0 and its penetration nan
C2_Witness ==
    \E key \in ms_keys :
        /\ ms_finished(key) /\ ms_nR >= 1
        /\ IsZero(TotalMarket_TWh[key])
        /\ \A c \in ms_cells : arrays[TotalMarketPen[key]].cells[c].k = "nan"

\* C3: with an empty Regions list the aggregation does not raise: it completes
\* the loops and leaves a nan penetration grid.
C3_EmptyRegionsCompletes ==
    ms_nR = 0 => ms_pc # "raised"

\* The Effective_Electric_Efficiency grid of the last region of the list
LastRegionEEE(key, c) ==
    out(studyPortfolio[key][ms_args.Regions[ms_nR]].study[c]).Effective_Electric_Efficiency

\* C4: PrimaryEnergySavings_TWh is AddressedMarket_TWh / g x (1 - g / E), g
\* the grid baseline electric efficiency and E the effective electric
\* efficiency grid of the last region iterated; PrimaryEnergySavings_Quads is
\* PrimaryEnergySavings_TWh / 293.1.
C4_PrimaryEnergySavings ==
    \A key \in ms_keys :
        ms_finished(key) =>
            \A c \in ms_cells :
                /\ arrays[PrimaryEnergySavings_TWh[key]].cells[c]
                      = MVMul(MVDiv(arrays[AddressedMarket_TWh[key]].cells[c],
                                    Np(17, 50)),
                              Sub(Np(1, 1),
                                  Div(Np(17, 50), ToArray(LastRegionEEE(key, c)))))
                /\ arrays[PrimaryEnergySavings_Quads[key]].cells[c]
                      = MVDiv(arrays[PrimaryEnergySavings_TWh[key]].cells[c],
                              Np(2931, 10))

\* a market study of two regions is done, with primary energy savings that
\* are not 0
C4_Witness ==
    /\ ms_pc = "done" /\ ms_nR >= 2
    /\ \E key \in ms_keys, c \in ms_cells :
          /\ arrays[PrimaryEnergySavings_TWh[key]].cells[c].t # {}
          /\ arrays[PrimaryEnergySavings_Quads[key]].cells[c].t # {}

\* The aggregates of a sector and year: the total and the arrays its four
\* grid entries refer to
Aggregates(arr, total, addressed, pen, pes, quads, key) ==
    <<total[key], arr[addressed[key]], arr[pen[key]], arr[pes[key]], arr[quads[key]]>>

\* C19: no step updates the shared array of zeros in place, and a step made
\* for one sector and year leaves the aggregates of every other sector and
\* year as they were.
C19_ZerosNeverUpdatedInPlace ==
    [][/\ arrays'[SensZeros] = Zeros(ms_n, ms_m)
       /\ \A key \in ms_keys \ {ms_key} :
             Aggregates(arrays', TotalMarket_TWh', AddressedMarket_TWh',
                        TotalMarketPen', PrimaryEnergySavings_TWh',
                        PrimaryEnergySavings_Quads', key)
               = Aggregates(arrays, TotalMarket_TWh, AddressedMarket_TWh,
                            TotalMarketPen, PrimaryEnergySavings_TWh,
                            PrimaryEnergySavings_Quads, key)]_vars

\* a second region was added in place to the addressed market of a sector
\* and year that is not the first one, the first one is finished, and the
\* array of zeros is unchanged
C19_Witness ==
    /\ Cardinality(ms_keys) > 1 /\ KeyOrder(ms_key) > 1
    /\ ms_pc = "loop" /\ ms_ri = 3
    /\ ~IsZero(RegionGen(ms_key, 1))
    /\ AddressedMarket_TWh[ms_key] # SensZeros
    /\ arrays[AddressedMarket_TWh[ms_key]] # Zeros(ms_n, ms_m)
    /\ TotalMarketPen[ms_key] = SensZeros
    /\ arrays[SensZeros] = Zeros(ms_n, ms_m)

\* The market and the addressed market of a set of regions of a sector and
\* year, summed in an order that depends on the set alone
RECURSIVE SetGen(_, _)
SetGen(key, S) ==
    IF S = {} THEN Np(0, 1)
    ELSE LET region == CHOOSE r \in S : TRUE
         IN  Add(studyPortfolio[key][region].NetGeneration_TWh,
                 SetGen(key, S \ {region}))
RECURSIVE SetAddressed(_, _, _)
SetAddressed(key, S, c) ==
    IF S = {} THEN MVZero
    ELSE LET region == CHOOSE r \in S : TRUE
         IN  MVAdd(MVMul(out(studyPortfolio[key][region].study[c]).MaxMarketPen,
                         studyPortfolio[key][region].NetGeneration_TWh),
                   SetAddressed(key, S \ {region}, c))

\* The primary energy savings of an addressed market, with the effective
\* electric efficiency of a region
RegionSavings(addressed, key, region, c) ==
    MVMul(MVDiv(addressed, ToArray(ms_args.grid_baseline_elec_efficiency)),
          Sub(Np(1, 1),
              Div(ToArray(ms_args.grid_baseline_elec_efficiency),
                  ToArray(out(studyPortfolio[key][region].study[c])
                              .Effective_Electric_Efficiency))))

\* The orderings of a list
Orderings(l) ==
    {o \in [1..Len(l) -> {l[i] : i \in 1..Len(l)}] :
        \A i, j \in 1..Len(l) : i # j => o[i] # o[j]}

\* TotalMarket_TWh in binary64 after one more region: assigned when it
\* equals 0, added to otherwise
FloatAccumulate(total, region_TotalMarket_TWh) ==
    IF FloatIsZero(total) THEN region_TotalMarket_TWh
    ELSE FloatAddValues(total, region_TotalMarket_TWh)

\* TotalMarket_TWh in binary64 after the first k regions of a Regions list
RECURSIVE FloatTotalMarket(_, _, _)
FloatTotalMarket(key, Regions, k) ==
    IF k = 0 THEN FloatZero
    ELSE Only({FloatAccumulate(total, g) :
               total \in {FloatTotalMarket(key, Regions, k - 1)},
               g \in {FloatOf(studyPortfolio[key][Regions[k]].NetGeneration_TWh)}})

\* x = y up to 2^-50 of x
FloatClose(x, y) ==
    /\ x.k = y.k
    /\ x.k = "fin" =>
          Only({FloatIsZero(d) \/ (~FloatIsZero(x) /\ FloatWithin(d, FloatMulValues(x, RoundingTolerance))) :
                d \in {FloatAddValues(x, FloatNeg(y))}})

====
